---- MODULE Spec2Model ----
(***************************************************************************)
(* Vector Balls: the elimination simulation (src/src/game.py), the ball    *)
(* (src/src/ball.py) and the physics helpers (src/physics.py).             *)
(*                                                                         *)
(* Numbers.  The program computes with floats; the model computes with     *)
(* integers in fixed point:                                                *)
(*   lengths and positions   in units of 0.1 pixel                         *)
(*   velocities and speeds   in units of 0.1 pixel / second                *)
(*   times (dt, cooldown, pygame ticks) in milliseconds                    *)
(*   unit vectors            as integer vectors of length UNIT             *)
(*   factors and ratios      in percent                                    *)
(* Every division rounds to the nearest integer (RDiv), as a float         *)
(* operation rounds to the nearest float.                                  *)
(***************************************************************************)
EXTENDS Integers, Sequences, FiniteSets, TLC

VARIABLES
    pc,               \* "new": Game(...) not yet called; "active": constructed; "failed": the constructor raised;
                      \* "ball_in"/"ball_out", "resolve_in"/"resolve_out": before/after one call of a single function
    settings,         \* Game.settings: the Settings value the game was given
    boundary_radius,  \* Game.boundary_radius
    ball,             \* the Ball objects, by id: id -> the object's fields
    balls,            \* Game.balls: the balls alive, a list of ball ids
    all_balls,        \* Game.all_balls
    eliminated_balls, \* Game.eliminated_balls
    winner,           \* Game.winner: a ball id, or None
    game_over,        \* Game.game_over
    game_start_time,  \* Game.game_start_time: pygame ticks (ms) at the first update, or None
    clock,            \* pygame.time.get_ticks(): ms since pygame.init()
    updates,          \* the number of Game.update calls made so far
    session,          \* GameManager._run_game_session: the loop's locals running, paused, restart_to_menu and
                      \* show_quit_confirm; at: "loop" while it iterates, "menu" or "exit" once it is left;
                      \* frames: the iterations made; simulated: the sum of the dt passed to game.update after
                      \* the call that started the grace period
    call              \* the last call made: its kind, its dt and its locals in_grace_period and to_eliminate;
                      \* alive, before: Game.balls and the Ball objects when the call starts (for Game.update:
                      \* when its severance pass starts, after the moves and the collisions)

vars == <<pc, settings, boundary_radius, ball, balls, all_balls, eliminated_balls,
          winner, game_over, game_start_time, clock, updates, session, call>>

\* Python's None, for winner and game_start_time (ball ids and times are >= 0)
None == 0 - 1

-----------------------------------------------------------------------------
(* Program constants (src/src/config.py), in the model's units.            *)

\* config.BOUNDARY_CENTER = (500, 500) px
BOUNDARY_CENTER == [x |-> 500 * 10, y |-> 500 * 10]
\* config.BOUNDARY_RADIUS = int((min(1000, 1000) // 2 - 40) * 0.75) = 345 px
BOUNDARY_RADIUS == 345 * 10
\* config.BALL_RADIUS = 12 px
BALL_RADIUS == 12 * 10
\* config.INITIAL_SPEED_MIN / INITIAL_SPEED_MAX = 160.0 / 240.0 px/s
INITIAL_SPEED_MIN == 160 * 10
INITIAL_SPEED_MAX == 240 * 10
\* config.MAX_SPEED = 700.0 px/s
MAX_SPEED == 700 * 10
\* config.INITIAL_LINES_PER_BALL
INITIAL_LINES_PER_BALL == 3
\* config.BOUNDARY_BOUNCE_COOLDOWN = 0.12 s
BOUNDARY_BOUNCE_COOLDOWN == 120
\* config.GRACE_PERIOD_DURATION = 1.0 s
GRACE_PERIOD_DURATION == 1000

\* the length of the integer vector that stands for a unit vector
UNIT == 100 * 100

-----------------------------------------------------------------------------
(* Integer arithmetic standing for the float arithmetic.                   *)

Abs(a) == IF a < 0 THEN -a ELSE a
Min(a, b) == IF a <= b THEN a ELSE b
Max(a, b) == IF a >= b THEN a ELSE b

\* a / b rounded to the nearest integer, halves away from zero (b > 0)
RDiv(a, b) == IF a >= 0 THEN (2 * a + b) \div (2 * b) ELSE -((2 * (-a) + b) \div (2 * b))

\* a number not below the square root of n, for 0 < n < 2^31
SqrtStart(n) ==
    IF n < 1024 THEN 32
    ELSE IF n < 65536 THEN 256
    ELSE IF n < 4194304 THEN 2048
    ELSE IF n < 268435456 THEN 16384
    ELSE 46341

\* the integer part of the square root of n > 0 by Newton's iteration, from
\* x not below the root; y is the iterate after x
RECURSIVE SqrtDescent(_, _)
SqrtStep(n, x, y) == IF y >= x THEN x ELSE SqrtDescent(n, y)
SqrtDescent(n, x) == SqrtStep(n, x, (x + n \div x) \div 2)

\* r, the integer part of the square root of n, rounded up where that is nearer
Nearest(n, r) == IF n - r * r > r THEN r + 1 ELSE r

\* the square root of n >= 0, rounded to the nearest integer
Sqrt(n) == IF n = 0 THEN 0 ELSE Nearest(n, SqrtDescent(n, SqrtStart(n)))

-----------------------------------------------------------------------------
(* pygame.math.Vector2                                                     *)

Vec(a, b) == [x |-> a, y |-> b]
VAdd(u, v) == Vec(u.x + v.x, u.y + v.y)
VSub(u, v) == Vec(u.x - v.x, u.y - v.y)
Dot(u, v) == u.x * v.x + u.y * v.y
\* Vector2.length_squared()
LengthSquared(v) == Dot(v, v)
\* Vector2.length()
Length(v) == Sqrt(LengthSquared(v))

\* v blown up (direction kept) until its larger component is about 20000, so
\* that the direction of a short vector is not lost to integer rounding
Blown(v) ==
    LET m == Max(Abs(v.x), Abs(v.y))
        k == IF m = 0 THEN 1 ELSE Max(1, 20000 \div m)
    IN  Vec(v.x * k, v.y * k)

\* w / len, in units of 1 / UNIT
Over(w, len) == Vec(RDiv(w.x * UNIT, len), RDiv(w.y * UNIT, len))

\* w / w.length()
Unit(w) == Over(w, Length(w))

\* Vector2.normalize(): the unit vector along v (v # 0), of length UNIT
Normalize(v) == Unit(Blown(v))

\* n * s for a unit vector n (of length UNIT) and a scalar s
Scaled(n, s) == Vec(RDiv(n.x * s, UNIT), RDiv(n.y * s, UNIT))

\* Vector2.scale_to_length(speed) (v # 0)
ScaleToLength(v, speed) == Scaled(Normalize(v), speed)

\* u.length() < d, u.length() <= d, u.length() > d for an integer d, decided exactly
LengthLT(u, d) == d > 0 /\ LengthSquared(u) < d * d
LengthLE(u, d) == d >= 0 /\ LengthSquared(u) <= d * d
LengthGT(u, d) == ~LengthLE(u, d)

-----------------------------------------------------------------------------
(* src/physics.py                                                          *)

\* ReflectedAbout without the factor 2.0: the normal component is removed, not negated
ProjectedAlong(velocity, n) == VSub(velocity, Scaled(n, RDiv(Dot(velocity, n), UNIT)))

\* line 57: v - 2 (v.n) n for the unit vector n
ReflectedAbout(velocity, n) == VSub(velocity, Scaled(n, 2 * RDiv(Dot(velocity, n), UNIT)))

\* reflect(velocity, normal): v - 2 (v.n) n about the normalized normal
reflect(velocity, normal) ==
    IF LengthSquared(normal) = 0 THEN velocity
    ELSE ReflectedAbout(velocity, Normalize(normal))

\* delta.length() in units of 0.001 px, for a delta shorter than two ball radii
FineLength(delta) == Sqrt(LengthSquared(Vec(delta.x * 100, delta.y * 100)))

\* line 78: delta.normalize() * (overlap / 2.0 + 0.1), for the unit vector n
\* and amount = overlap / 2 + 0.1 in units of 0.001 px
Correction(n, amount) == Vec(RDiv(n.x * amount, UNIT * 100), RDiv(n.y * amount, UNIT * 100))

\* lines 79-80: the two positions moved apart by the correction
Corrected(a, b, correction) ==
    [a |-> VSub(a.position, correction), b |-> VAdd(b.position, correction)]

\* lines 76-80: the positions after the overlap correction, for the delta and
\* the distance (in units of 0.001 px, as min_distance and overlap here) of lines 66-73
SeparatedBy(a, b, delta, distance) ==
    IF (a.radius + b.radius) * 100 - distance > 0
    THEN Corrected(a, b, Correction(Normalize(delta),
                                    RDiv((a.radius + b.radius) * 100 - distance, 2) + 100))
    ELSE [a |-> a.position, b |-> b.position]

\* lines 66-80: the positions of a and b after the overlap correction; for
\* coincident centers delta is (1, 0) px and distance 1.0 px
Separated(a, b) ==
    IF LengthSquared(VSub(b.position, a.position)) = 0
    THEN SeparatedBy(a, b, Vec(10, 0), 1000)
    ELSE SeparatedBy(a, b, VSub(b.position, a.position), FineLength(VSub(b.position, a.position)))

\* lines 104-105, 109-110: the velocity scaled to the new speed
BoostedTo(velocity, new_speed) ==
    IF new_speed > 0 THEN ScaleToLength(velocity, new_speed) ELSE velocity

\* Boosted without the cap at MAX_SPEED
BoostedUncapped(velocity, speed_increase_factor) ==
    IF LengthSquared(velocity) > 0
    THEN BoostedTo(velocity, RDiv(Length(velocity) * (100 + speed_increase_factor), 100))
    ELSE velocity

\* lines 101-110: the speed boost after a collision, factor in percent
Boosted(velocity, speed_increase_factor) ==
    IF LengthSquared(velocity) > 0
    THEN BoostedTo(velocity,
                   Min(RDiv(Length(velocity) * (100 + speed_increase_factor), 100), MAX_SPEED))
    ELSE velocity

\* Response without the swap: each ball keeps its own normal component
ResponseWithoutSwap(a, b, n, t, speed_increase_factor) ==
    [a |-> [a EXCEPT !.velocity =
                Boosted(VAdd(Scaled(n, RDiv(Dot(a.velocity, n), UNIT)),
                             Scaled(t, RDiv(Dot(a.velocity, t), UNIT))), speed_increase_factor)],
     b |-> [b EXCEPT !.velocity =
                Boosted(VAdd(Scaled(n, RDiv(Dot(b.velocity, n), UNIT)),
                             Scaled(t, RDiv(Dot(b.velocity, t), UNIT))), speed_increase_factor)]]

\* lines 89-110: the normal components a_vn, b_vn swapped, the tangential
\* components a_vt, b_vt kept, then the boost
Response(a, b, n, t, speed_increase_factor) ==
    [a |-> [a EXCEPT !.velocity =
                Boosted(VAdd(Scaled(n, RDiv(Dot(b.velocity, n), UNIT)),
                             Scaled(t, RDiv(Dot(a.velocity, t), UNIT))), speed_increase_factor)],
     b |-> [b EXCEPT !.velocity =
                Boosted(VAdd(Scaled(n, RDiv(Dot(a.velocity, n), UNIT)),
                             Scaled(t, RDiv(Dot(b.velocity, t), UNIT))), speed_increase_factor)]]

\* lines 87-110: the response along the unit normal n, with t = (-n.y, n.x)
RespondedAlong(a, b, n, speed_increase_factor) ==
    Response(a, b, n, Vec(-n.y, n.x), speed_increase_factor)

\* lines 83-110: the collision response of the separated balls
Responded(a, b, speed_increase_factor) ==
    IF LengthSquared(VSub(b.position, a.position)) = 0 THEN [a |-> a, b |-> b]
    ELSE RespondedAlong(a, b, Normalize(VSub(b.position, a.position)), speed_increase_factor)

\* the balls at the positions pos.a and pos.b
MovedApart(a, b, pos) == [a |-> [a EXCEPT !.position = pos.a], b |-> [b EXCEPT !.position = pos.b]]

\* Responded for the pair ab
RespondedPair(ab, speed_increase_factor) == Responded(ab.a, ab.b, speed_increase_factor)

\* resolve_ball_ball_collision(a, b, speed_increase_factor): the two balls after the call
resolve_ball_ball_collision(a, b, speed_increase_factor) ==
    RespondedPair(MovedApart(a, b, Separated(a, b)), speed_increase_factor)

\* line 124: the closest point seg_a + n * (ap.n), n the unit vector along ab
Closest(seg_a, ap, n) == VAdd(seg_a, Scaled(n, RDiv(Dot(ap, n), UNIT)))

\* lines 117-124: the point of the segment closest to `point`.  The code's
\* seg_a + ab * t, t = clamp(ap.ab / ab.ab, 0, 1), is computed as
\* seg_a + n * (ap.n) with n the unit vector along ab; the clamping of t is
\* decided exactly, from the sign of ap.ab and of ap.ab - ab.ab.  For a
\* degenerate segment the distance is ap.length(), the distance to seg_a.
ClosestOnSegment(point, seg_a, seg_b) ==
    LET ab == VSub(seg_b, seg_a)
        ap == VSub(point, seg_a)
        ab_len_sq == LengthSquared(ab)
    IN  IF ab_len_sq = 0 THEN seg_a
        ELSE IF Dot(ap, ab) <= 0 THEN seg_a
        ELSE IF Dot(ap, ab) >= ab_len_sq THEN seg_b
        ELSE Closest(seg_a, ap, Normalize(ab))

\* distance_point_to_segment(point, seg_a, seg_b)
distance_point_to_segment(point, seg_a, seg_b) ==
    Length(VSub(point, ClosestOnSegment(point, seg_a, seg_b)))

\* circle_intersects_segment(center, radius, seg_a, seg_b):
\* distance_point_to_segment(center, seg_a, seg_b) <= radius, the distance
\* compared exactly (by its square) instead of rounded
circle_intersects_segment(center, radius, seg_a, seg_b) ==
    LengthLE(VSub(center, ClosestOnSegment(center, seg_a, seg_b)), radius)

-----------------------------------------------------------------------------
(* src/src/ball.py                                                         *)

\* Ball.__init__; lines_added counts the anchors add_random_lines has appended
\* to lines since (the Ball object itself keeps no such count)
NewBall(ball_id, position, velocity, color, s) ==
    [id |-> ball_id, position |-> position, velocity |-> velocity, color |-> color,
     radius |-> BALL_RADIUS, lines |-> << >>, boundary_cooldown |-> 0,
     lines_per_hit |-> s.lines_per_boundary_hit,
     boundary_speed_increase |-> s.boundary_collision_speed_increase,
     lines_removed_by_me |-> 0, my_lines_removed_by_others |-> 0, lines_added |-> 0]

\* the anchor at the boundary point in direction dir (a unit vector: cos, sin of the random angle)
Anchor(boundary_center, radius, dir) ==
    Vec(boundary_center.x + RDiv(dir.x * radius, UNIT), boundary_center.y + RDiv(dir.y * radius, UNIT))

\* Ball.add_random_lines(boundary_center, boundary_radius, count); dirs: the count random angles drawn
add_random_lines(b, boundary_center, radius, dirs) ==
    [b EXCEPT !.lines = @ \o [k \in 1..Len(dirs) |-> Anchor(boundary_center, radius, dirs[k])],
              !.lines_added = @ + Len(dirs)]

\* line 63: position += velocity * dt, dt in ms
Integrated(b, dt) ==
    VAdd(b.position, Vec(RDiv(b.velocity.x * dt, 1000), RDiv(b.velocity.y * dt, 1000)))

\* line 72: dist_from_center + radius > boundary_radius, at position pos
Penetrates(pos, radius, boundary_center, boundary_rad) ==
    LengthGT(VSub(pos, boundary_center), boundary_rad - radius)

\* lines 66-67: the cooldown after this call's tick
Ticked(cooldown, dt) == IF cooldown > 0 THEN Max(0, cooldown - dt) ELSE cooldown

\* whether this call of Ball.update draws random angles (spawns lines)
Spawns(b, dt, boundary_center, boundary_rad) ==
    /\ Penetrates(Integrated(b, dt), b.radius, boundary_center, boundary_rad)
    /\ Ticked(b.boundary_cooldown, dt) <= 0

\* SpedUp without the cap at MAX_SPEED
SpedUpUncapped(v, speed, increase) ==
    IF speed > 0 THEN ScaleToLength(v, speed + increase) ELSE v

\* lines 79-82: v scaled to its speed plus the increase, capped
SpedUp(v, speed, increase) ==
    IF speed > 0 THEN ScaleToLength(v, Min(speed + increase, MAX_SPEED)) ELSE v

\* lines 79-82, with speed = v.length()
SpedUpBy(v, increase) == SpedUp(v, Length(v), increase)

\* lines 77-82: reflect the velocity about the normal and boost the speed
Bounced(b, normal) == SpedUpBy(reflect(b.velocity, normal), b.boundary_speed_increase)

\* Clamped with the ball's radius forgotten: the center is put on the boundary
ClampedOnBoundary(boundary_center, normal, boundary_rad, radius) ==
    VAdd(boundary_center, Scaled(normal, boundary_rad))

\* line 75: the ball placed just inside the boundary, along the normal
Clamped(boundary_center, normal, boundary_rad, radius) ==
    VAdd(boundary_center, Scaled(normal, boundary_rad - radius))

\* lines 63-67: the ball after the integration step and the cooldown tick
Moved(b, dt) == [b EXCEPT !.position = Integrated(b, dt), !.boundary_cooldown = Ticked(@, dt)]

\* line 74: the surface normal for the offset from the center
Normal(offset) == IF LengthSquared(offset) # 0 THEN Normalize(offset) ELSE Vec(UNIT, 0)

\* lines 75-82: the ball placed just inside the boundary, its velocity reflected and boosted
Landed(b, boundary_center, boundary_rad, normal) ==
    [b EXCEPT !.position = Clamped(boundary_center, normal, boundary_rad, b.radius),
              !.velocity = Bounced(b, normal)]

\* Respawned without the cooldown test: every contact spawns lines
RespawnedAtOnce(b, boundary_center, boundary_rad, dirs) ==
    [add_random_lines(b, boundary_center, boundary_rad, dirs)
        EXCEPT !.boundary_cooldown = BOUNDARY_BOUNCE_COOLDOWN]

\* lines 85-87: new lines if the cooldown has expired
Respawned(b, boundary_center, boundary_rad, dirs) ==
    IF b.boundary_cooldown <= 0
    THEN [add_random_lines(b, boundary_center, boundary_rad, dirs)
             EXCEPT !.boundary_cooldown = BOUNDARY_BOUNCE_COOLDOWN]
    ELSE b

\* lines 70-87: the boundary collision of the moved ball
Contained(b, boundary_center, boundary_rad, dirs) ==
    IF Penetrates(b.position, b.radius, boundary_center, boundary_rad)
    THEN Respawned(Landed(b, boundary_center, boundary_rad, Normal(VSub(b.position, boundary_center))),
                   boundary_center, boundary_rad, dirs)
    ELSE b

\* Ball.update(dt, boundary_center, boundary_radius); dirs: the random angles
\* add_random_lines draws if it is called
BallUpdate(b, dt, boundary_center, boundary_rad, dirs) ==
    Contained(Moved(b, dt), boundary_center, boundary_rad, dirs)

-----------------------------------------------------------------------------
(* Bounds and the small sets the inputs and the random draws come from.    *)

\* the numbers of balls the setup form is filled in with (the form takes 2 to 12)
BallCounts == {2}
\* the most Game.update calls of one session
MaxUpdates == 3

\* the colours of config.COLORS, the first two
Colors == {1, 2}

\* random.random() * math.tau: the directions (cos, sin) the random angles point in
AnchorDirs == {Vec(0, UNIT), Vec(0, -UNIT)}
SpawnDirs == {Vec(0, UNIT), Vec(0, -UNIT)}
VelocityDirs == {Vec(0, UNIT), Vec(0, -UNIT)}
\* random.uniform(0.15, 0.75), in percent: the draws of the sessions, and
\* the draws of the construction alone, from both ends of the range
SpawnFractions == {45}
AnySpawnFractions == {15, 45, 75}
\* random.uniform(INITIAL_SPEED_MIN, INITIAL_SPEED_MAX)
Speeds == {200 * 10}
\* the dt values (ms) Game.update is called with
DtSet == {0, 400}
\* the time (ms) that passes between two readings of pygame.time.get_ticks()
AdvSet == {500, 1000}

\* the sequences of n random directions
DirSeqs(n) == [1..n -> AnchorDirs]

InSeq(s, e) == \E k \in 1..Len(s) : s[k] = e
SeqSet(s) == {s[k] : k \in 1..Len(s)}
\* list.remove(e): the list without its first element equal to e
RemoveFirst(s, e) ==
    LET k == CHOOSE k \in 1..Len(s) : s[k] = e /\ \A j \in 1..(k - 1) : s[j] # e
    IN  SubSeq(s, 1, k - 1) \o SubSeq(s, k + 1, Len(s))

-----------------------------------------------------------------------------
(* src/src/game.py: construction                                           *)

\* reset, lines 43-44: the boundary radius for a ratio in percent
BoundaryRadius(s) ==
    LET ratio == Max(30, Min(100, s.boundary_radius_ratio))
    IN  RDiv(BOUNDARY_RADIUS * ratio, 100)

\* _position_is_free(pos), with the balls spawned so far
position_is_free(pos, spawned, boundary_rad) ==
    /\ ~LengthGT(VSub(pos, BOUNDARY_CENTER), boundary_rad - BALL_RADIUS)
    /\ \A k \in 1..Len(spawned) :
          ~LengthLT(VSub(pos, spawned[k].position), RDiv(BALL_RADIUS * 22, 10))

\* lines 59-61: the candidate points the random draws can give
Candidates(boundary_rad, fractions) ==
    {VAdd(BOUNDARY_CENTER, Scaled(d, RDiv((boundary_rad - BALL_RADIUS - 20) * f, 100))) :
        d \in SpawnDirs, f \in fractions}

\* lines 56-68: where a ball can be placed: at a free candidate, or at the
\* center when every one of the 1000 attempts drew a candidate that is not free
Placements(spawned, boundary_rad, fractions) ==
    {c \in Candidates(boundary_rad, fractions) : position_is_free(c, spawned, boundary_rad)}
    \cup (IF \E c \in Candidates(boundary_rad, fractions) : ~position_is_free(c, spawned, boundary_rad)
          THEN {BOUNDARY_CENTER} ELSE {})

\* lines 70-72: the initial velocities
Velocities == {Scaled(d, sp) : d \in VelocityDirs, sp \in Speeds}

\* _spawn_balls(count), lines 53-77: every list of balls the loop can build
\* from the balls spawned so far (needs Len(colors) >= count)
RECURSIVE spawn_balls(_, _, _, _, _)
spawn_balls(spawned, count, s, boundary_rad, fractions) ==
    IF Len(spawned) >= count THEN {spawned}
    ELSE LET i == Len(spawned)
             color == s.colors[i + 1]
             next == {add_random_lines(NewBall(i, p, v, color, s), BOUNDARY_CENTER, boundary_rad, dirs) :
                         p \in Placements(spawned, boundary_rad, fractions), v \in Velocities,
                         dirs \in DirSeqs(INITIAL_LINES_PER_BALL)}
         IN  UNION {spawn_balls(Append(spawned, b), count, s, boundary_rad, fractions) : b \in next}

\* Game.__init__ / reset: settings.colors[i] raises IndexError for i >= len(colors)
ConstructionRaises(s) == \E i \in 0..(s.num_balls - 1) : i >= Len(s.colors)

\* _run_game_session, lines 47-50: the loop's locals when the session starts
NewSession == [running |-> TRUE, paused |-> FALSE, restart_to_menu |-> FALSE,
               show_quit_confirm |-> FALSE, at |-> "loop", frames |-> 0, simulated |-> 0]

NoCall == [kind |-> "none", dt |-> 0, in_grace_period |-> FALSE, to_eliminate |-> << >>,
           alive |-> << >>, before |-> << >>]

\* Game(screen, settings), the placement attempts drawing from fractions
Construct(fractions) ==
    /\ pc = "new"
    /\ IF ConstructionRaises(settings)
       THEN /\ pc' = "failed"
            /\ UNCHANGED <<boundary_radius, ball, balls, all_balls>>
       ELSE /\ pc' = "active"
            /\ boundary_radius' = BoundaryRadius(settings)
            /\ \E spawned \in spawn_balls(<< >>, settings.num_balls, settings, BoundaryRadius(settings), fractions) :
                  /\ ball' = [i \in 0..(Len(spawned) - 1) |-> spawned[i + 1]]
                  /\ balls' = [k \in 1..Len(spawned) |-> k - 1]
                  /\ all_balls' = [k \in 1..Len(spawned) |-> k - 1]
    /\ eliminated_balls' = << >>
    /\ winner' = None
    /\ game_over' = FALSE
    /\ game_start_time' = None
    /\ UNCHANGED <<settings, clock, updates, session, call>>

\* Game(screen, settings) at the start of a session
GameInit == Construct(SpawnFractions)

-----------------------------------------------------------------------------
(* src/src/game.py: Game.update                                            *)

\* lines 95-96: every alive ball's update, from alive[k] on; tape[i]: the random angles ball i draws
RECURSIVE MoveBalls(_, _, _, _, _, _)
MoveBalls(bs, alive, k, dt, boundary_rad, tape) ==
    IF k > Len(alive) THEN bs
    ELSE LET i == alive[k]
             dirs == IF i \in DOMAIN tape THEN tape[i] ELSE << >>
         IN  MoveBalls([bs EXCEPT ![i] = BallUpdate(@, dt, BOUNDARY_CENTER, boundary_rad, dirs)],
                       alive, k + 1, dt, boundary_rad, tape)

\* the alive balls that draw random angles in this call
Spawners(bs, alive, dt, boundary_rad) ==
    {i \in SeqSet(alive) : Spawns(bs[i], dt, BOUNDARY_CENTER, boundary_rad)}

\* line 106: the balls with a and b as resolve_ball_ball_collision left them
Resolved(bs, a, b, r) == [bs EXCEPT ![a] = r.a, ![b] = r.b]

\* lines 99-106: the pairs i < j of the alive list in loop order, from (i, j) on
RECURSIVE CollideBalls(_, _, _, _, _)
CollideBalls(bs, alive, i, j, factor) ==
    IF i > Len(alive) THEN bs
    ELSE IF j > Len(alive) THEN CollideBalls(bs, alive, i + 1, i + 2, factor)
    ELSE LET a == bs[alive[i]]
             b == bs[alive[j]]
         IN  IF LengthLE(VSub(a.position, b.position), a.radius + b.radius)
             THEN CollideBalls(Resolved(bs, alive[i], alive[j], resolve_ball_ball_collision(a, b, factor)),
                               alive, i, j + 1, factor)
             ELSE CollideBalls(bs, alive, i, j + 1, factor)

\* Queued with `not to_eliminate` for `owner not in to_eliminate`: only one ball is ever queued
QueuedOnlyFirst(to_eliminate, owner, lines) ==
    IF Len(lines) = 0 /\ Len(to_eliminate) = 0
    THEN Append(to_eliminate, owner)
    ELSE to_eliminate

\* Queued without the append: a ball that lost its last line is never queued
QueuedNever(to_eliminate, owner, lines) == to_eliminate

\* Queued with the owner put in front of the queue
QueuedInFront(to_eliminate, owner, lines) ==
    IF Len(lines) = 0 /\ ~InSeq(to_eliminate, owner)
    THEN <<owner>> \o to_eliminate
    ELSE to_eliminate

\* lines 128-129: to_eliminate after owner's lines became `lines`
Queued(to_eliminate, owner, lines) ==
    IF Len(lines) = 0 /\ ~InSeq(to_eliminate, owner)
    THEN Append(to_eliminate, owner)
    ELSE to_eliminate

\* SeverAnchors walking the owner's own list instead of a copy: the anchor
\* that follows a removed one is skipped
RECURSIVE SeverAnchorsLive(_, _, _, _, _)
SeverAnchorsLive(st, moving, owner, copy, k) ==
    IF k > Len(st.bs[owner].lines) THEN st
    ELSE LET anchor == st.bs[owner].lines[k]
             m == st.bs[moving]
             o == st.bs[owner]
         IN  IF circle_intersects_segment(m.position, m.radius, anchor, o.position)
             THEN LET lines == RemoveFirst(o.lines, anchor)
                      bs1 == [st.bs EXCEPT ![owner].lines = lines,
                                           ![moving].lines_removed_by_me = @ + 1,
                                           ![owner].my_lines_removed_by_others = @ + 1]
                      te1 == Queued(st.to_eliminate, owner, lines)
                  IN  SeverAnchorsLive([bs |-> bs1, to_eliminate |-> te1], moving, owner, copy, k + 1)
             ELSE SeverAnchorsLive(st, moving, owner, copy, k + 1)

\* lines 123-129: one mover against the copy of one owner's lines, from copy[k] on;
\* st = [bs, to_eliminate]
RECURSIVE SeverAnchors(_, _, _, _, _)
SeverAnchors(st, moving, owner, copy, k) ==
    IF k > Len(copy) THEN st
    ELSE LET anchor == copy[k]
             m == st.bs[moving]
             o == st.bs[owner]
         IN  IF circle_intersects_segment(m.position, m.radius, anchor, o.position)
             THEN LET lines == RemoveFirst(o.lines, anchor)
                      bs1 == [st.bs EXCEPT ![owner].lines = lines,
                                           ![moving].lines_removed_by_me = @ + 1,
                                           ![owner].my_lines_removed_by_others = @ + 1]
                      te1 == Queued(st.to_eliminate, owner, lines)
                  IN  SeverAnchors([bs |-> bs1, to_eliminate |-> te1], moving, owner, copy, k + 1)
             ELSE SeverAnchors(st, moving, owner, copy, k + 1)

\* SeverLines with a ball already queued for elimination no longer acting as mover
RECURSIVE SeverLinesSkipQueued(_, _, _, _)
SeverLinesSkipQueued(st, alive, mi, oi) ==
    IF mi > Len(alive) THEN st
    ELSE IF oi > Len(alive) THEN SeverLinesSkipQueued(st, alive, mi + 1, 1)
    ELSE IF alive[mi] = alive[oi] \/ InSeq(st.to_eliminate, alive[mi])
         THEN SeverLinesSkipQueued(st, alive, mi, oi + 1)
    ELSE SeverLinesSkipQueued(SeverAnchors(st, alive[mi], alive[oi], st.bs[alive[oi]].lines, 1),
                              alive, mi, oi + 1)

\* SeverLines with the movers taken from all_balls: the eliminated balls still cut lines
RECURSIVE SeverLinesByAll(_, _, _, _)
SeverLinesByAll(st, alive, mi, oi) ==
    IF mi > Len(all_balls) THEN st
    ELSE IF oi > Len(alive) THEN SeverLinesByAll(st, alive, mi + 1, 1)
    ELSE IF all_balls[mi] = alive[oi] THEN SeverLinesByAll(st, alive, mi, oi + 1)
    ELSE SeverLinesByAll(SeverAnchors(st, all_balls[mi], alive[oi], st.bs[alive[oi]].lines, 1),
                         alive, mi, oi + 1)

\* SeverLines without `if moving.id == owner.id: continue`: a mover also cuts its own lines
RECURSIVE SeverLinesOwnToo(_, _, _, _)
SeverLinesOwnToo(st, alive, mi, oi) ==
    IF mi > Len(alive) THEN st
    ELSE IF oi > Len(alive) THEN SeverLinesOwnToo(st, alive, mi + 1, 1)
    ELSE SeverLinesOwnToo(SeverAnchors(st, alive[mi], alive[oi], st.bs[alive[oi]].lines, 1),
                          alive, mi, oi + 1)

\* lines 118-129: the severance pass, from mover alive[mi] and owner alive[oi] on
RECURSIVE SeverLines(_, _, _, _)
SeverLines(st, alive, mi, oi) ==
    IF mi > Len(alive) THEN st
    ELSE IF oi > Len(alive) THEN SeverLines(st, alive, mi + 1, 1)
    ELSE IF alive[mi] = alive[oi] THEN SeverLines(st, alive, mi, oi + 1)
    ELSE SeverLines(SeverAnchors(st, alive[mi], alive[oi], st.bs[alive[oi]].lines, 1),
                    alive, mi, oi + 1)

\* Eliminate with the dead ball appended to balls instead of removed from it
RECURSIVE EliminateAppends(_, _, _)
EliminateAppends(st, to_eliminate, k) ==
    IF k > Len(to_eliminate) THEN st
    ELSE LET dead == to_eliminate[k]
         IN  IF InSeq(st.balls, dead)
             THEN EliminateAppends([balls |-> Append(st.balls, dead),
                                    eliminated_balls |-> Append(st.eliminated_balls, dead)],
                                   to_eliminate, k + 1)
             ELSE EliminateAppends(st, to_eliminate, k + 1)

\* Eliminate without `self.balls.remove(dead)`: the dead stay in balls
RECURSIVE EliminateKeepsAlive(_, _, _)
EliminateKeepsAlive(st, to_eliminate, k) ==
    IF k > Len(to_eliminate) THEN st
    ELSE LET dead == to_eliminate[k]
         IN  IF InSeq(st.balls, dead)
             THEN EliminateKeepsAlive([balls |-> st.balls,
                                       eliminated_balls |-> Append(st.eliminated_balls, dead)],
                                      to_eliminate, k + 1)
             ELSE EliminateKeepsAlive(st, to_eliminate, k + 1)

\* lines 132-136: st = [balls, eliminated_balls] after the dead from to_eliminate[k] on are moved
RECURSIVE Eliminate(_, _, _)
Eliminate(st, to_eliminate, k) ==
    IF k > Len(to_eliminate) THEN st
    ELSE LET dead == to_eliminate[k]
         IN  IF InSeq(st.balls, dead)
             THEN Eliminate([balls |-> RemoveFirst(st.balls, dead),
                             eliminated_balls |-> Append(st.eliminated_balls, dead)],
                            to_eliminate, k + 1)
             ELSE Eliminate(st, to_eliminate, k + 1)

\* Victory without the `elif len(self.balls) == 0` branch
VictoryWithoutDraw(alive, w, over) ==
    IF Len(alive) = 1 THEN [winner |-> alive[1], game_over |-> TRUE]
    ELSE [winner |-> w, game_over |-> over]

\* Victory naming the first alive ball the winner while others are still alive
VictoryEager(alive, w, over) ==
    IF Len(alive) >= 1 THEN [winner |-> alive[1], game_over |-> Len(alive) = 1]
    ELSE [winner |-> None, game_over |-> TRUE]

\* lines 139-144: [winner, game_over] after the victory check
Victory(alive, w, over) ==
    IF Len(alive) = 1 THEN [winner |-> alive[1], game_over |-> TRUE]
    ELSE IF Len(alive) = 0 THEN [winner |-> None, game_over |-> TRUE]
    ELSE [winner |-> w, game_over |-> over]

\* InGracePeriod with the ticks (ms) compared to the duration in seconds
InGracePeriodInSeconds(current_time, start) ==
    (current_time - start) < GRACE_PERIOD_DURATION \div 1000

\* line 114
InGracePeriod(current_time, start) == (current_time - start) < GRACE_PERIOD_DURATION

\* some alive ball's circle intersects a line of another alive ball
Crossing(bs, alive) ==
    \E m \in SeqSet(alive), o \in SeqSet(alive) :
        /\ m # o
        /\ \E k \in 1..Len(bs[o].lines) :
              circle_intersects_segment(bs[m].position, bs[m].radius, bs[o].lines[k], bs[o].position)

\* update without its early return
NeverReturnsEarly == FALSE

\* lines 91-92: the early return
UpdateReturnsEarly == game_over

\* Game.update(dt) past the early return, the balls drawing the angles of
\* tape; pygame.time.get_ticks() is read after the collisions (line 110), at
\* one of the times in `times`.  Each stage's result is bound once, in the
\* order the code computes it.
UpdateBody(dt, times, tape) ==
    \E moved \in {MoveBalls(ball, balls, 1, dt, boundary_radius, tape)} :
    \E collided \in {CollideBalls(moved, balls, 1, 2, settings.ball_collision_speed_increase_factor)} :
    \E current_time \in times :
    \E start \in {IF game_start_time = None THEN current_time ELSE game_start_time} :
    \E in_grace_period \in {InGracePeriod(current_time, start)} :
    \E severed \in {IF ~in_grace_period
                    THEN SeverLines([bs |-> collided, to_eliminate |-> << >>], balls, 1, 1)
                    ELSE [bs |-> collided, to_eliminate |-> << >>]} :
    \E left \in {Eliminate([balls |-> balls, eliminated_balls |-> eliminated_balls],
                           severed.to_eliminate, 1)} :
    \E v \in {Victory(left.balls, winner, game_over)} :
        /\ clock' = current_time
        /\ ball' = severed.bs
        /\ game_start_time' = start
        /\ balls' = left.balls
        /\ eliminated_balls' = left.eliminated_balls
        /\ winner' = v.winner
        /\ game_over' = v.game_over
        /\ call' = [kind |-> "update", dt |-> dt, in_grace_period |-> in_grace_period,
                    to_eliminate |-> severed.to_eliminate,
                    alive |-> balls, before |-> collided]

\* Game.update(dt), called while pygame's clock reaches one of `times`
GameUpdate(dt, times) ==
    IF UpdateReturnsEarly
    THEN /\ \E current_time \in times : clock' = current_time
         /\ call' = [NoCall EXCEPT !.kind = "noop", !.dt = dt]
         /\ UNCHANGED <<ball, balls, eliminated_balls, winner, game_over, game_start_time>>
    ELSE \E tape \in [Spawners(ball, balls, dt, boundary_radius) -> DirSeqs(settings.lines_per_boundary_hit)] :
            UpdateBody(dt, times, tape)

\* one call game.update(dt), with any dt and at any time
Update ==
    /\ pc = "active"
    /\ updates < MaxUpdates
    /\ updates' = updates + 1
    /\ \E dt \in DtSet : GameUpdate(dt, {clock + adv : adv \in AdvSet})
    /\ UNCHANGED <<pc, settings, boundary_radius, all_balls, session>>

-----------------------------------------------------------------------------
(* The game: a Settings value from the setup form, Game(settings), then    *)
(* the session loop's update calls.                                        *)

\* the Settings values settings_form_screen returns: 2 or more balls, one
\* colour each, no colour twice
FormSettings ==
    {[num_balls |-> n, lines_per_boundary_hit |-> 1,
      ball_collision_speed_increase_factor |-> 12,
      boundary_collision_speed_increase |-> 25 * 10,
      boundary_radius_ratio |-> 30, colors |-> [k \in 1..n |-> k]] :
        n \in BallCounts}

BeforeConstruction ==
    /\ pc = "new"
    /\ boundary_radius = BOUNDARY_RADIUS
    /\ ball = << >>
    /\ balls = << >>
    /\ all_balls = << >>
    /\ eliminated_balls = << >>
    /\ winner = None
    /\ game_over = FALSE
    /\ game_start_time = None
    /\ clock = 0
    /\ updates = 0
    /\ session = NewSession
    /\ call = NoCall

Init ==
    /\ settings \in FormSettings
    /\ BeforeConstruction

Next == GameInit \/ Update

Spec == Init /\ [][Next]_vars

-----------------------------------------------------------------------------
(* src/src/game_manager.py: GameManager._run_game_session, the loop of one *)
(* session (src/main.py: main holds a second copy of it).  Each iteration  *)
(* handles the events pygame queued, one by one, then ticks the clock and  *)
(* calls game.update(dt) unless paused.                                    *)

\* the keys a KEYDOWN event carries; K_a stands for any key the loop does not name
Keys == {"K_r", "K_SPACE", "K_ESCAPE", "K_y", "K_RETURN", "K_n", "K_a"}
\* where a MOUSEBUTTONDOWN event lands: on a button of the dialog, on the
\* stats screen's exit button, or elsewhere
Clicks == {"yes_button", "no_button", "exit_button", "elsewhere"}
\* the milliseconds clock.tick(FPS) returns
FrameDts == {500}
\* the iterations of one session: as many as the game.update calls of the game alone
MaxFrames == MaxUpdates

\* the key handler with a Space that toggles paused under the dialog too
PressedSpaceToggles(sn, key, over) ==
    IF key = "K_r" /\ over
    THEN [sn EXCEPT !.restart_to_menu = TRUE]
    ELSE IF key = "K_SPACE"
    THEN [sn EXCEPT !.paused = ~@]
    ELSE IF key = "K_ESCAPE"
    THEN IF ~over THEN [sn EXCEPT !.show_quit_confirm = TRUE, !.paused = TRUE] ELSE sn
    ELSE IF sn.show_quit_confirm
    THEN IF key \in {"K_y", "K_RETURN"}
         THEN [sn EXCEPT !.restart_to_menu = TRUE, !.show_quit_confirm = FALSE]
         ELSE IF key \in {"K_n", "K_ESCAPE"}
         THEN [sn EXCEPT !.show_quit_confirm = FALSE, !.paused = FALSE]
         ELSE sn
    ELSE sn

\* lines 56-72: the locals after a KEYDOWN event of key, over: game.game_over
Pressed(sn, key, over) ==
    IF key = "K_r" /\ over
    THEN [sn EXCEPT !.restart_to_menu = TRUE]
    ELSE IF key = "K_SPACE"
    THEN IF ~sn.show_quit_confirm THEN [sn EXCEPT !.paused = ~@] ELSE sn
    ELSE IF key = "K_ESCAPE"
    THEN IF ~over THEN [sn EXCEPT !.show_quit_confirm = TRUE, !.paused = TRUE] ELSE sn
    ELSE IF sn.show_quit_confirm
    THEN IF key \in {"K_y", "K_RETURN"}
         THEN [sn EXCEPT !.restart_to_menu = TRUE, !.show_quit_confirm = FALSE]
         ELSE IF key \in {"K_n", "K_ESCAPE"}
         THEN [sn EXCEPT !.show_quit_confirm = FALSE, !.paused = FALSE]
         ELSE sn
    ELSE sn

\* lines 73-97: the locals after a MOUSEBUTTONDOWN event on target; the click
\* on the exit button of the stats screen ends the process
Clicked(sn, target, over) ==
    IF sn.show_quit_confirm
    THEN IF target = "yes_button"
         THEN [sn EXCEPT !.restart_to_menu = TRUE, !.show_quit_confirm = FALSE]
         ELSE IF target = "no_button"
         THEN [sn EXCEPT !.show_quit_confirm = FALSE, !.paused = FALSE]
         ELSE sn
    ELSE IF over /\ target = "exit_button"
    THEN [sn EXCEPT !.at = "exit"]
    ELSE sn

\* the session takes one event from the queue
Handling ==
    /\ pc = "active"
    /\ session.at = "loop"
    /\ UNCHANGED <<pc, settings, boundary_radius, ball, balls, all_balls, eliminated_balls,
                   winner, game_over, game_start_time, clock, updates, call>>

\* lines 54-55: pygame.QUIT
QuitEvent ==
    /\ Handling
    /\ session' = [session EXCEPT !.running = FALSE]

\* lines 56-72: pygame.KEYDOWN
KeyDown ==
    /\ Handling
    /\ \E key \in Keys :
          session' = Pressed(session, key, game_over)

\* lines 73-97: pygame.MOUSEBUTTONDOWN
MouseButtonDown ==
    /\ Handling
    /\ \E target \in Clicks :
          session' = Clicked(session, target, game_over)

\* line 52 and lines 117-119: where the session is after an iteration
LoopTest(sn) ==
    IF sn.running /\ ~sn.restart_to_menu THEN "loop"
    ELSE IF ~sn.running THEN "exit" ELSE "menu"

\* lines 99-102 and the loop test: the events of this iteration are handled,
\* dt = clock.tick(FPS), game.update(dt) unless paused
Frame ==
    /\ pc = "active"
    /\ session.at = "loop"
    /\ session.frames < MaxFrames
    /\ \E dt \in FrameDts :
          IF ~session.paused
          THEN /\ updates' = updates + 1
               /\ GameUpdate(dt, {clock + dt})
               /\ session' = [session EXCEPT
                                 !.frames = @ + 1, !.at = LoopTest(session),
                                 !.simulated = IF game_over \/ game_start_time = None THEN @ ELSE @ + dt]
          ELSE /\ clock' = clock + dt
               /\ session' = [session EXCEPT !.frames = @ + 1, !.at = LoopTest(session)]
               /\ UNCHANGED <<updates, ball, balls, eliminated_balls, winner, game_over,
                              game_start_time, call>>
    /\ UNCHANGED <<pc, settings, boundary_radius, all_balls>>

NextSession == GameInit \/ QuitEvent \/ KeyDown \/ MouseButtonDown \/ Frame

SpecSession == Init /\ [][NextSession]_vars

-----------------------------------------------------------------------------
(* Games whose every update moves the balls: dt is never 0.                *)

MovingDts == {400}

\* one call game.update(dt) with a dt that moves the balls, at any time
UpdateMoving ==
    /\ pc = "active"
    /\ updates < MaxUpdates
    /\ updates' = updates + 1
    /\ \E dt \in MovingDts : GameUpdate(dt, {clock + adv : adv \in AdvSet})
    /\ UNCHANGED <<pc, settings, boundary_radius, all_balls, session>>

-----------------------------------------------------------------------------
(* The game with large speed increases in the setup form (the form takes   *)
(* any value >= 0): its balls reach MAX_SPEED within the first updates.    *)

FastSettings ==
    {[s EXCEPT !.ball_collision_speed_increase_factor = 300,
               !.boundary_collision_speed_increase = 600 * 10] : s \in FormSettings}

InitFast ==
    /\ settings \in FastSettings
    /\ BeforeConstruction

\* one call game.update(dt) of the fast game, one second after the last
UpdateFast ==
    /\ pc = "active"
    /\ updates < MaxUpdates
    /\ updates' = updates + 1
    /\ \E dt \in MovingDts : GameUpdate(dt, {clock + 1000})
    /\ UNCHANGED <<pc, settings, boundary_radius, all_balls, session>>

NextFast == GameInit \/ UpdateFast

SpecFast == InitFast /\ [][NextFast]_vars

-----------------------------------------------------------------------------
(* A game of three balls, from the state Game(settings) leaves: a game     *)
(* that goes on after its first elimination.  Of the games the constructor *)
(* can build, those whose balls each drew one angle for their three        *)
(* initial anchors.                                                        *)

ThreeBalls ==
    [num_balls |-> 3, lines_per_boundary_hit |-> 1,
     ball_collision_speed_increase_factor |-> 12,
     boundary_collision_speed_increase |-> 25 * 10,
     boundary_radius_ratio |-> 30, colors |-> <<1, 2, 3>>]

\* every ball of the list spawned has its anchors on one point
OneAnchorEach(spawned) ==
    \A k \in 1..Len(spawned) : \A i \in 1..Len(spawned[k].lines) :
        spawned[k].lines[i] = spawned[k].lines[1]

InitThree ==
    /\ settings = ThreeBalls
    /\ pc = "active"
    /\ boundary_radius = BoundaryRadius(settings)
    /\ \E spawned \in spawn_balls(<< >>, settings.num_balls, settings,
                                   BoundaryRadius(settings), SpawnFractions) :
          /\ OneAnchorEach(spawned)
          /\ ball = [i \in 0..(Len(spawned) - 1) |-> spawned[i + 1]]
          /\ balls = [k \in 1..Len(spawned) |-> k - 1]
          /\ all_balls = [k \in 1..Len(spawned) |-> k - 1]
    /\ eliminated_balls = << >>
    /\ winner = None
    /\ game_over = FALSE
    /\ game_start_time = None
    /\ clock = 0
    /\ updates = 0
    /\ session = NewSession
    /\ call = NoCall

SpecThree == InitThree /\ [][UpdateMoving]_vars

-----------------------------------------------------------------------------
(* Game(settings) alone, for any Settings value a caller can build.        *)

AnySettings ==
    {[num_balls |-> n, lines_per_boundary_hit |-> 1,
      ball_collision_speed_increase_factor |-> 12,
      boundary_collision_speed_increase |-> 25 * 10,
      boundary_radius_ratio |-> 30, colors |-> c] :
        n \in {1, 2}, c \in UNION {[1..m -> Colors] : m \in 0..3}}

InitConstruct ==
    /\ settings \in AnySettings
    /\ BeforeConstruction

\* Game(screen, settings), wherever the placement attempts land
GameInitAnywhere == Construct(AnySpawnFractions)

SpecConstruct == InitConstruct /\ [][GameInitAnywhere]_vars

-----------------------------------------------------------------------------
(* Ball.update alone: one ball anywhere around the arena, one call.        *)

\* the starting positions lie on a grid of (2 GridN + 1)^2 points around the center
GridN == 3
\* the grid's step, 0.1 px
GridStep == 45 * 10
BallPositions ==
    {VAdd(BOUNDARY_CENTER, Vec(i * GridStep, j * GridStep)) : i, j \in (-GridN)..GridN}
BallVelocities == {Vec(0, 0), Vec(200 * 10, 0), Vec(-120 * 10, 160 * 10), Vec(0, -700 * 10)}
BallDts == {0, 16, 400}
BallCooldowns == {0, 60}

SomeSettings == CHOOSE s \in FormSettings : TRUE

InitBall ==
    /\ pc = "ball_in"
    /\ settings = SomeSettings
    /\ boundary_radius \in {BoundaryRadius([settings EXCEPT !.boundary_radius_ratio = r]) : r \in {30, 100}}
    /\ \E p \in BallPositions, v \in BallVelocities, c \in BallCooldowns :
          ball = [i \in {0} |-> [NewBall(0, p, v, 1, settings) EXCEPT !.boundary_cooldown = c]]
    /\ balls = <<0>>
    /\ all_balls = <<0>>
    /\ eliminated_balls = << >>
    /\ winner = None
    /\ game_over = FALSE
    /\ game_start_time = None
    /\ clock = 0
    /\ updates = 0
    /\ session = NewSession
    /\ call = NoCall

\* b.update(dt, boundary_center, boundary_radius)
BallUpdateCall ==
    /\ pc = "ball_in"
    /\ pc' = "ball_out"
    /\ \E dt \in BallDts, dirs \in DirSeqs(ball[0].lines_per_hit) :
          /\ ball' = [ball EXCEPT ![0] = BallUpdate(@, dt, BOUNDARY_CENTER, boundary_radius, dirs)]
          /\ call' = [NoCall EXCEPT !.kind = "ball_update", !.dt = dt, !.alive = balls, !.before = ball]
    /\ UNCHANGED <<settings, boundary_radius, balls, all_balls, eliminated_balls, winner,
                   game_over, game_start_time, clock, updates, session>>

SpecBall == InitBall /\ [][BallUpdateCall]_vars

-----------------------------------------------------------------------------
(* Ball.update again and again: one ball, the calls of its updates.  The   *)
(* call record also keeps since, the dt accumulated since the ball last    *)
(* spawned lines, and gap, the dt accumulated between its last two spawns  *)
(* (None before the first and the second spawn).                           *)

BounceDts == {0, 16, 60, 120}

\* the dt accumulated since the last spawn, before the call that follows `c`
SinceSpawn(c) == IF c.kind = "bounce" THEN c.since ELSE None
LastGap(c) == IF c.kind = "bounce" THEN c.gap ELSE None

\* b.update(dt, boundary_center, boundary_radius), once more
BounceCall ==
    /\ pc \in {"ball_in", "ball_out"}
    /\ updates < MaxUpdates
    /\ pc' = "ball_out"
    /\ updates' = updates + 1
    /\ \E dt \in BounceDts, dirs \in DirSeqs(ball[0].lines_per_hit) :
       \E after \in {BallUpdate(ball[0], dt, BOUNDARY_CENTER, boundary_radius, dirs)} :
       \E spawned \in {Len(after.lines) > Len(ball[0].lines)} :
          /\ ball' = [ball EXCEPT ![0] = after]
          /\ call' = [kind |-> "bounce", dt |-> dt, in_grace_period |-> FALSE,
                      to_eliminate |-> << >>, alive |-> balls, before |-> ball,
                      since |-> IF spawned THEN 0
                                ELSE IF SinceSpawn(call) = None THEN None
                                ELSE SinceSpawn(call) + dt,
                      gap |-> IF spawned /\ SinceSpawn(call) # None
                              THEN SinceSpawn(call) + dt
                              ELSE LastGap(call)]
    /\ UNCHANGED <<settings, boundary_radius, balls, all_balls, eliminated_balls, winner,
                   game_over, game_start_time, clock, session>>

SpecBounce == InitBall /\ [][BounceCall]_vars

-----------------------------------------------------------------------------
(* resolve_ball_ball_collision alone: two balls, one call.                 *)

\* ball b starts at a grid point around ball a, (2 DeltaN + 1)^2 points
DeltaN == 3
\* the grid's step, 0.1 px
DeltaStep == 7 * 10
ResolveDeltas == {Vec(i * DeltaStep, j * DeltaStep) : i, j \in (-DeltaN)..DeltaN}
ResolveVelocities ==
    {Vec(200 * 10, 0), Vec(-120 * 10, 160 * 10), Vec(0, 0), Vec(650 * 10, 0), Vec(0, 650 * 10)}

InitResolve ==
    /\ pc = "resolve_in"
    /\ settings \in {[SomeSettings EXCEPT !.ball_collision_speed_increase_factor = f] : f \in {0, 12}}
    /\ boundary_radius = BoundaryRadius(settings)
    /\ \E d \in ResolveDeltas, va, vb \in ResolveVelocities :
          ball = [i \in {0, 1} |->
                    IF i = 0 THEN NewBall(0, BOUNDARY_CENTER, va, 1, settings)
                    ELSE NewBall(1, VAdd(BOUNDARY_CENTER, d), vb, 2, settings)]
    /\ balls = <<0, 1>>
    /\ all_balls = <<0, 1>>
    /\ eliminated_balls = << >>
    /\ winner = None
    /\ game_over = FALSE
    /\ game_start_time = None
    /\ clock = 0
    /\ updates = 0
    /\ session = NewSession
    /\ call = NoCall

\* physics.resolve_ball_ball_collision(a, b, factor)
ResolveCall ==
    /\ pc = "resolve_in"
    /\ pc' = "resolve_out"
    /\ \E r \in {resolve_ball_ball_collision(ball[0], ball[1], settings.ball_collision_speed_increase_factor)} :
          ball' = [ball EXCEPT ![0] = r.a, ![1] = r.b]
    /\ call' = [NoCall EXCEPT !.kind = "resolve", !.alive = balls, !.before = ball]
    /\ UNCHANGED <<settings, boundary_radius, balls, all_balls, eliminated_balls, winner,
                   game_over, game_start_time, clock, updates, session>>

SpecResolve == InitResolve /\ [][ResolveCall]_vars

-----------------------------------------------------------------------------
(* reflect alone: one velocity, one normal, one call.  The normal argument *)
(* is held as the ball's offset from the boundary center, the vector       *)
(* Ball.update derives it from.                                            *)

ReflectNormals == ResolveDeltas \cup {Vec(UNIT, 0), Vec(0, -UNIT), Vec(3, -4), Vec(-1, 1)}
ReflectVelocities == BallVelocities \cup ResolveVelocities \cup {Vec(1, 0), Vec(-30, 45)}

InitReflect ==
    /\ pc = "reflect_in"
    /\ settings = SomeSettings
    /\ boundary_radius = BoundaryRadius(settings)
    /\ \E normal \in ReflectNormals, v \in ReflectVelocities :
          ball = [i \in {0} |-> NewBall(0, VAdd(BOUNDARY_CENTER, normal), v, 1, settings)]
    /\ balls = <<0>>
    /\ all_balls = <<0>>
    /\ eliminated_balls = << >>
    /\ winner = None
    /\ game_over = FALSE
    /\ game_start_time = None
    /\ clock = 0
    /\ updates = 0
    /\ session = NewSession
    /\ call = NoCall

\* velocity = physics.reflect(velocity, normal)
ReflectCall ==
    /\ pc = "reflect_in"
    /\ pc' = "reflect_out"
    /\ ball' = [ball EXCEPT ![0].velocity = reflect(@, VSub(ball[0].position, BOUNDARY_CENTER))]
    /\ call' = [NoCall EXCEPT !.kind = "reflect", !.alive = balls, !.before = ball]
    /\ UNCHANGED <<settings, boundary_radius, balls, all_balls, eliminated_balls, winner,
                   game_over, game_start_time, clock, updates, session>>

SpecReflect == InitReflect /\ [][ReflectCall]_vars

-----------------------------------------------------------------------------
(* Properties.                                                             *)

\* the tolerance (0.1 px) the fixed-point arithmetic needs where the floats need an epsilon
Eps == 1

IsPrefix(s, t) == Len(s) <= Len(t) /\ SubSeq(t, 1, Len(s)) = s

\* C1: at the end of every Game.update call that is not a no-op, one ball left
\* means it is the winner and the game is over, no ball left means no winner and
\* the game is over, and two or more left means the game goes on with no winner.
C1_VictoryCheck ==
    call.kind = "update" =>
        /\ Len(balls) = 1 => (winner = balls[1] /\ game_over)
        /\ Len(balls) = 0 => (winner = None /\ game_over)
        /\ Len(balls) >= 2 => (~game_over /\ winner = None)

\* an update call has just left exactly one ball, the winner
C1_Witness ==
    /\ call.kind = "update"
    /\ Len(call.alive) = 2
    /\ Len(balls) = 1
    /\ winner = balls[1]
    /\ game_over

\* C2: a ball whose lines become empty during a call's severance pass is, at the
\* end of that call, out of balls and in eliminated_balls.
C2_EliminatedSameTick ==
    call.kind = "update" =>
        \A i \in SeqSet(call.alive) :
            (Len(call.before[i].lines) > 0 /\ Len(ball[i].lines) = 0)
                => (~InSeq(balls, i) /\ InSeq(eliminated_balls, i))

\* an update call has just severed a ball's last lines and eliminated it
C2_Witness ==
    /\ call.kind = "update"
    /\ \E i \in SeqSet(call.alive) :
          /\ Len(call.before[i].lines) > 0
          /\ Len(ball[i].lines) = 0
          /\ InSeq(eliminated_balls, i)
          /\ ~InSeq(balls, i)

\* C3: once game_over is true it stays true, and once winner is a ball it stays that ball.
C3_GameOverOneWay ==
    [][(game_over => game_over') /\ (winner # None => winner' = winner)]_vars

\* update was called again after a ball had won
C3_Witness ==
    /\ call.kind = "noop"
    /\ game_over
    /\ winner # None

\* C4: from one update call to the next the number of alive balls never grows
\* and all_balls loses no element.
C4_AliveNeverGrows ==
    [][pc = "active" => (Len(balls') <= Len(balls) /\ IsPrefix(all_balls, all_balls'))]_vars

\* an update call has removed a ball from balls; all_balls still holds them all
C4_Witness ==
    /\ call.kind = "update"
    /\ Len(balls) < Len(call.alive)
    /\ Len(all_balls) = settings.num_balls

\* C5: an update call made less than GRACE_PERIOD_DURATION after the session's
\* first one removes no anchor, changes no counter and eliminates no ball.
C5_GracePeriod ==
    [][(call'.kind = "update" /\ clock' - game_start_time' < GRACE_PERIOD_DURATION) =>
          /\ \A i \in DOMAIN ball :
                /\ IsPrefix(ball[i].lines, ball'[i].lines)
                /\ ball'[i].lines_removed_by_me = ball[i].lines_removed_by_me
                /\ ball'[i].my_lines_removed_by_others = ball[i].my_lines_removed_by_others
          /\ balls' = balls
          /\ eliminated_balls' = eliminated_balls]_vars

\* a later update call, still inside the grace period, with a ball on another ball's line
C5_Witness ==
    /\ call.kind = "update"
    /\ updates >= 2
    /\ clock - game_start_time < GRACE_PERIOD_DURATION
    /\ clock - game_start_time > 0
    /\ Crossing(ball, balls)
    /\ \A i \in DOMAIN ball : ball[i].lines_removed_by_me = 0

\* each of the two alive balls has one line left and stands on the other's line
\* as the severance pass of the last update call starts
MutualLastLines ==
    /\ call.kind = "update"
    /\ ~call.in_grace_period
    /\ Len(call.alive) = 2
    /\ LET a == call.before[call.alive[1]]
           b == call.before[call.alive[2]]
       IN  /\ Len(a.lines) = 1
           /\ Len(b.lines) = 1
           /\ circle_intersects_segment(a.position, a.radius, b.lines[1], b.position)
           /\ circle_intersects_segment(b.position, b.radius, a.lines[1], a.position)

\* C6: two alive balls after the grace period, each on the other's last line:
\* both are eliminated in that call, in the order queued, and the game is a draw.
C6_MutualElimination ==
    MutualLastLines =>
        /\ balls = << >>
        /\ call.to_eliminate = <<call.alive[2], call.alive[1]>>
        /\ InSeq(eliminated_balls, call.alive[1])
        /\ InSeq(eliminated_balls, call.alive[2])
        /\ ball[call.alive[1]].lines_removed_by_me = call.before[call.alive[1]].lines_removed_by_me + 1
        /\ ball[call.alive[2]].lines_removed_by_me = call.before[call.alive[2]].lines_removed_by_me + 1
        /\ winner = None
        /\ game_over

\* the mutual elimination has happened
C6_Witness == MutualLastLines /\ balls = << >> /\ game_over

\* C7: when game_over is true, update changes nothing of the game or of any ball.
C7_UpdateNoOpWhenOver ==
    [][(pc = "active" /\ game_over) =>
          UNCHANGED <<ball, balls, all_balls, eliminated_balls, winner, game_over,
                      game_start_time, boundary_radius, settings>>]_vars

\* update(dt) with dt > 0 was called on a finished game
C7_Witness ==
    /\ call.kind = "noop"
    /\ call.dt > 0
    /\ game_over

\* the colour list is one colour per ball, no colour twice
ValidColors(s) ==
    /\ Len(s.colors) = s.num_balls
    /\ \A i, j \in 1..Len(s.colors) : i # j => s.colors[i] # s.colors[j]

\* C8: constructing a Game from Settings whose colour list is shorter or longer
\* than num_balls, or holds a colour twice, fails: no Game is produced.
C8_ConstructionRejectsBadColors ==
    pc = "active" => ValidColors(settings)

\* the ball before the last Ball.update call, and where its integration step takes it
BallBefore == call.before[0]
BallMovedTo == Integrated(BallBefore, call.dt)

\* C9: after Ball.update the ball's center distance plus its radius is at most
\* boundary_radius (within the tolerance), and a ball that penetrated the
\* boundary lies at distance boundary_radius - radius, on the ray from the
\* center through the point it had moved to.
C9_BoundaryContainment ==
    pc = "ball_out" =>
        LET b == ball[0]
            off == VSub(b.position, BOUNDARY_CENTER)
            moved == VSub(BallMovedTo, BOUNDARY_CENTER)
            near == boundary_radius - b.radius
        IN  /\ LengthLE(off, near + Eps)
            /\ Penetrates(BallMovedTo, b.radius, BOUNDARY_CENTER, boundary_radius) =>
                  /\ LengthGT(off, near - Eps)
                  /\ Dot(off, moved) > 0
                  /\ Abs(off.x * moved.y - off.y * moved.x) <= Eps * (Length(moved) + 1)

\* a ball that had moved beyond the boundary has been clamped
C9_Witness ==
    /\ pc = "ball_out"
    /\ call.dt > 0
    /\ Penetrates(BallMovedTo, ball[0].radius, BOUNDARY_CENTER, boundary_radius)
    /\ ball[0].position # BallMovedTo
    /\ LengthLE(VSub(ball[0].position, BOUNDARY_CENTER), boundary_radius - ball[0].radius + Eps)

\* C10: two balls whose centers were closer than the sum of their radii
\* (coincident centers included) are at least that far apart after
\* resolve_ball_ball_collision.
C10_SeparatedAfterResolve ==
    (pc = "resolve_out"
        /\ LengthLT(VSub(call.before[1].position, call.before[0].position),
                    call.before[0].radius + call.before[1].radius))
    => ~LengthLT(VSub(ball[1].position, ball[0].position), ball[0].radius + ball[1].radius)

\* the tolerance on velocities (0.1 px/s): the roundings of one normalization and two scalings
VelTol == 3 * Eps

\* the collision normal n of the last resolve call (from a to b, after the
\* separation) and the tangent t
ResolveNormal == Normalize(VSub(ball[1].position, ball[0].position))
ResolveTangent == Vec(-ResolveNormal.y, ResolveNormal.x)
\* the component of v along the unit vector n
Along(v, n) == RDiv(Dot(v, n), UNIT)
\* the velocity with normal component vn and tangential component vt
Composed(vn, vt) == VAdd(Scaled(ResolveNormal, vn), Scaled(ResolveTangent, vt))
\* the two velocities after the swap of the normal components, before the boost
SwappedA == Composed(Along(call.before[1].velocity, ResolveNormal), Along(call.before[0].velocity, ResolveTangent))
SwappedB == Composed(Along(call.before[0].velocity, ResolveNormal), Along(call.before[1].velocity, ResolveTangent))

\* a resolve call with factor 0 on two balls slower than MAX_SPEED
ElasticCase ==
    /\ pc = "resolve_out"
    /\ settings.ball_collision_speed_increase_factor = 0
    /\ LengthLT(call.before[0].velocity, MAX_SPEED)
    /\ LengthLT(call.before[1].velocity, MAX_SPEED)

\* the normal components are swapped, the tangential ones kept, and the sum of
\* the velocities and of the squared speeds is as before, within tol (0.1 px/s)
ElasticExchange(tol) ==
    LET a0 == call.before[0].velocity
        b0 == call.before[1].velocity
        a1 == ball[0].velocity
        b1 == ball[1].velocity
        n == ResolveNormal
        t == ResolveTangent
    IN  /\ Abs(Along(a1, n) - Along(b0, n)) <= tol
        /\ Abs(Along(b1, n) - Along(a0, n)) <= tol
        /\ Abs(Along(a1, t) - Along(a0, t)) <= tol
        /\ Abs(Along(b1, t) - Along(b0, t)) <= tol
        /\ Abs((a1.x + b1.x) - (a0.x + b0.x)) <= 2 * tol
        /\ Abs((a1.y + b1.y) - (a0.y + b0.y)) <= 2 * tol
        /\ Abs((LengthSquared(a1) + LengthSquared(b1)) - (LengthSquared(a0) + LengthSquared(b0)))
              <= 2 * tol * (Length(a0) + Length(b0) + 2 * tol)

\* C11 as stated: with factor 0 and both balls slower than MAX_SPEED the normal
\* components are swapped, the tangential ones kept, and the sums of the
\* velocities and of the squared speeds are conserved.
C11_ElasticExchangeBelowMax == ElasticCase => ElasticExchange(VelTol)

\* C11, amended: the same, provided the velocities after the swap are not above
\* MAX_SPEED either (a swapped velocity above MAX_SPEED is scaled down to it).
C11_ElasticExchange ==
    (ElasticCase /\ LengthLE(SwappedA, MAX_SPEED) /\ LengthLE(SwappedB, MAX_SPEED))
        => ElasticExchange(VelTol)

\* a collision of two moving balls that exchanged different normal components
C11_Witness ==
    /\ ElasticCase
    /\ LengthLE(SwappedA, MAX_SPEED) /\ LengthLE(SwappedB, MAX_SPEED)
    /\ Along(call.before[0].velocity, ResolveNormal) # Along(call.before[1].velocity, ResolveNormal)
    /\ ball[0].velocity # call.before[0].velocity
    /\ ElasticExchange(VelTol)

\* the arguments of the last reflect call
ReflectVelocity == call.before[0].velocity
ReflectNormal == VSub(ball[0].position, BOUNDARY_CENTER)

\* C12: for a non-zero normal reflect(v, n) is as long as v, its component along
\* the normalized n is the negation of v's and its tangential component is v's
\* (within the tolerance); for the zero normal reflect returns v.
C12_ReflectionLaw ==
    pc = "reflect_out" =>
        IF LengthSquared(ReflectNormal) = 0 THEN ball[0].velocity = ReflectVelocity
        ELSE LET n == Normalize(ReflectNormal)
                 t == Vec(-n.y, n.x)
                 r == ball[0].velocity
             IN  /\ Abs(Length(r) - Length(ReflectVelocity)) <= VelTol
                 /\ Abs(Along(r, n) + Along(ReflectVelocity, n)) <= VelTol
                 /\ Abs(Along(r, t) - Along(ReflectVelocity, t)) <= VelTol

\* a velocity with a component along a non-unit normal has been reflected
C12_Witness ==
    /\ pc = "reflect_out"
    /\ LengthSquared(ReflectNormal) # 0
    /\ LengthSquared(ReflectNormal) # UNIT * UNIT
    /\ Along(ReflectVelocity, Normalize(ReflectNormal)) > 100
    /\ ball[0].velocity # ReflectVelocity
    /\ Abs(Length(ball[0].velocity) - Length(ReflectVelocity)) <= VelTol

\* the last Ball.update call found the moved ball beyond the boundary
BallHitBoundary ==
    /\ pc = "ball_out"
    /\ Penetrates(BallMovedTo, BallBefore.radius, BOUNDARY_CENTER, boundary_radius)

\* C13: when Ball.update finds the ball beyond the boundary and its speed s is
\* not zero, the speed after the call is min(s + boundary_collision_speed_increase,
\* MAX_SPEED) and the direction is the incoming one reflected about the outward
\* normal (within the tolerance).
C13_BoundarySpeedBoost ==
    (BallHitBoundary /\ LengthSquared(BallBefore.velocity) > 0) =>
        LET v0 == BallBefore.velocity
            v1 == ball[0].velocity
            s0 == Length(v0)
            s1 == Length(v1)
            n == Normal(VSub(BallMovedTo, BOUNDARY_CENTER))
            t == Vec(-n.y, n.x)
        IN  /\ Abs(s1 - Min(s0 + BallBefore.boundary_speed_increase, MAX_SPEED)) <= VelTol
            /\ Abs(Along(v1, n) * s0 + Along(v0, n) * s1) <= VelTol * (s0 + s1)
            /\ Abs(Along(v1, t) * s0 - Along(v0, t) * s1) <= VelTol * (s0 + s1)

\* a ball moving outwards at 200 px/s has bounced and left at 225 px/s
C13_Witness ==
    /\ BallHitBoundary
    /\ Length(BallBefore.velocity) = 200 * 10
    /\ BallBefore.boundary_speed_increase = 25 * 10
    /\ Abs(Length(ball[0].velocity) - 225 * 10) <= VelTol
    /\ Dot(ball[0].velocity, VSub(BallMovedTo, BOUNDARY_CENTER)) < 0

\* the session loop is handling events while the quit-confirmation dialog is shown
DialogShown ==
    /\ pc = "active"
    /\ session.at = "loop"
    /\ session.show_quit_confirm

\* C14: while the quit-confirmation dialog is shown, a KEYDOWN of Escape
\* answers "No": the handler leaves show_quit_confirm false and paused false,
\* the locals a KEYDOWN of N leaves.
C14_EscapeAnswersNo ==
    DialogShown =>
        /\ ~Pressed(session, "K_ESCAPE", game_over).show_quit_confirm
        /\ ~Pressed(session, "K_ESCAPE", game_over).paused
        /\ Pressed(session, "K_ESCAPE", game_over) = Pressed(session, "K_n", game_over)

\* the state Game(settings) leaves, before any update
JustConstructed == pc = "active" /\ updates = 0 /\ call.kind = "none"

\* C15: immediately after construction, whatever the random placement attempts
\* drew, every spawned ball lies inside the boundary and any two balls have
\* their centers at least 2.2 * BALL_RADIUS apart.
C15_SpawnedApart ==
    JustConstructed =>
        /\ Len(all_balls) = settings.num_balls
        /\ \A i \in SeqSet(all_balls) :
              LengthLE(VSub(ball[i].position, BOUNDARY_CENTER), boundary_radius - ball[i].radius)
        /\ \A i, j \in SeqSet(all_balls) :
              i # j => ~LengthLT(VSub(ball[i].position, ball[j].position), RDiv(BALL_RADIUS * 22, 10))

\* mover m's circle lies on the line from anchor to owner o, the balls as in bs
Cuts(bs, m, o, anchor) ==
    circle_intersects_segment(bs[m].position, bs[m].radius, anchor, bs[o].position)

\* the place in alive of the first mover that cuts o's anchor, 0 when none does
FirstCutter(bs, alive, o, anchor) ==
    LET ks == {k \in 1..Len(alive) : alive[k] # o /\ Cuts(bs, alive[k], o, anchor)}
    IN  IF ks = {} THEN 0 ELSE CHOOSE k \in ks : \A j \in ks : k <= j

\* the place in alive of the mover that takes o's last line, 0 when o keeps a line
ZeroedAt(bs, alive, o) ==
    LET firsts == {FirstCutter(bs, alive, o, bs[o].lines[i]) : i \in 1..Len(bs[o].lines)}
    IN  IF firsts = {} \/ 0 \in firsts THEN 0
        ELSE CHOOSE k \in firsts : \A j \in firsts : j <= k

\* the place of ball o in the list alive
PlaceIn(alive, o) == CHOOSE k \in 1..Len(alive) : alive[k] = o

\* o reaches zero lines before p in a severance pass over alive
ZeroedBefore(bs, alive, o, p) ==
    \/ ZeroedAt(bs, alive, o) < ZeroedAt(bs, alive, p)
    \/ /\ ZeroedAt(bs, alive, o) = ZeroedAt(bs, alive, p)
       /\ PlaceIn(alive, o) < PlaceIn(alive, p)

\* queue holds, once each and in the order they reached zero lines, the balls
\* of c.alive that lose their last line in the severance pass of call c
InZeroingOrder(c, queue) ==
    /\ \A i, j \in 1..Len(queue) : i < j =>
          queue[i] # queue[j] /\ ZeroedBefore(c.before, c.alive, queue[i], queue[j])
    /\ SeqSet(queue) = IF c.in_grace_period THEN {}
                       ELSE {o \in SeqSet(c.alive) : ZeroedAt(c.before, c.alive, o) > 0}

Uncut(bs, alive, o, s) == SelectSeq(s, LAMBDA anchor : FirstCutter(bs, alive, o, anchor) = 0)

\* how many anchors of the balls of alive have the mover at place k as their first cutter
CutsCredited(bs, alive, k) ==
    Cardinality(UNION {{<<o, i>> : i \in {j \in 1..Len(bs[o].lines) :
                                              FirstCutter(bs, alive, o, bs[o].lines[j]) = k}} :
                          o \in SeqSet(alive)})

C18_GraceInSimulatedTime ==
    call.kind = "update" =>
        (call.in_grace_period <=> session.simulated < GRACE_PERIOD_DURATION)

\* the last of the ball's update calls: the ball before it, whether the moved
\* ball was beyond the boundary, and the cooldown after the call's tick
BounceBefore == call.before[0]
BounceHit ==
    Penetrates(Integrated(BounceBefore, call.dt), BounceBefore.radius, BOUNDARY_CENTER, boundary_radius)
BounceCooldown == Ticked(BounceBefore.boundary_cooldown, call.dt)

\* the ball sits on the circle just inside the boundary and its velocity was boosted
BouncedBack ==
    /\ Abs(Length(VSub(ball[0].position, BOUNDARY_CENTER)) - (boundary_radius - ball[0].radius)) <= Eps
    /\ LengthSquared(BounceBefore.velocity) > 0 =>
          Abs(Length(ball[0].velocity)
              - Min(Length(BounceBefore.velocity) + BounceBefore.boundary_speed_increase, MAX_SPEED)) <= VelTol

\* C19: a boundary contact in Ball.update appends lines_per_boundary_hit anchors
\* and sets the cooldown to BOUNDARY_BOUNCE_COOLDOWN exactly when the ticked
\* cooldown is <= 0; a contact with the cooldown still > 0 clamps the position
\* and boosts the velocity but leaves lines and cooldown alone; without a contact
\* the lines do not change; and two spawns of a ball are at least
\* BOUNDARY_BOUNCE_COOLDOWN of accumulated dt apart.
C19_SpawnCooldown ==
    call.kind = "bounce" =>
        /\ (BounceHit /\ BounceCooldown <= 0) =>
              /\ Len(ball[0].lines) = Len(BounceBefore.lines) + BounceBefore.lines_per_hit
              /\ IsPrefix(BounceBefore.lines, ball[0].lines)
              /\ ball[0].boundary_cooldown = BOUNDARY_BOUNCE_COOLDOWN
              /\ BouncedBack
        /\ (BounceHit /\ BounceCooldown > 0) =>
              /\ ball[0].lines = BounceBefore.lines
              /\ ball[0].boundary_cooldown = BounceCooldown
              /\ BouncedBack
        /\ ~BounceHit =>
              /\ ball[0].lines = BounceBefore.lines
              /\ ball[0].boundary_cooldown = BounceCooldown
        /\ call.gap # None => call.gap >= BOUNDARY_BOUNCE_COOLDOWN

\* the ball spawned lines and, two calls of 0.06 s later, 0.12 s of dt after
\* that spawn and not before, it spawned lines again
C19_Witness ==
    /\ call.kind = "bounce"
    /\ BounceHit
    /\ call.dt = 60
    /\ call.gap = BOUNDARY_BOUNCE_COOLDOWN
    /\ Len(ball[0].lines) = Len(BounceBefore.lines) + BounceBefore.lines_per_hit
    /\ ball[0].boundary_cooldown = BOUNDARY_BOUNCE_COOLDOWN

\* the list s holds no ball twice
NoRepeats(s) == \A i, j \in 1..Len(s) : i # j => s[i] # s[j]

\* C20: after construction and after every Game.update call, balls and
\* eliminated_balls share no ball, neither holds a ball twice, together they
\* hold exactly the balls of all_balls, and all_balls holds the num_balls balls
\* with the ids 0 .. num_balls - 1 in spawn order.
C20_BallLists ==
    pc = "active" =>
        /\ SeqSet(balls) \cap SeqSet(eliminated_balls) = {}
        /\ NoRepeats(balls)
        /\ NoRepeats(eliminated_balls)
        /\ SeqSet(balls) \cup SeqSet(eliminated_balls) = SeqSet(all_balls)
        /\ Len(all_balls) = settings.num_balls
        /\ \A k \in 1..Len(all_balls) : ball[all_balls[k]].id = k - 1
        /\ DOMAIN ball = 0..(settings.num_balls - 1)

\* an update has moved one ball to eliminated_balls and left the other in balls
C20_Witness ==
    /\ pc = "active"
    /\ call.kind = "update"
    /\ Len(call.to_eliminate) = 1
    /\ Len(balls) = 1
    /\ eliminated_balls = call.to_eliminate

\* C21: after construction and at the end of every Game.update call, every
\* ball in balls has at least one line and every ball in eliminated_balls has
\* none.
C21_LinesOfAliveAndDead ==
    pc = "active" =>
        /\ \A b \in SeqSet(balls) : Len(ball[b].lines) >= 1
        /\ \A b \in SeqSet(eliminated_balls) : Len(ball[b].lines) = 0

\* an update took the last line of one ball and cut, but did not finish, the other
C21_Witness ==
    /\ pc = "active"
    /\ call.kind = "update"
    /\ Len(eliminated_balls) = 1
    /\ Len(ball[eliminated_balls[1]].lines) = 0
    /\ Len(call.before[eliminated_balls[1]].lines) >= 1
    /\ Len(balls) = 1
    /\ Len(ball[balls[1]].lines) >= 1
    /\ Len(ball[balls[1]].lines) < Len(call.before[balls[1]].lines)

\* the sum of f[b] over the balls of the set bs
RECURSIVE SumOver(_, _)
SumOver(f, bs) ==
    IF bs = {} THEN 0
    ELSE LET b == CHOOSE x \in bs : TRUE IN f[b] + SumOver(f, bs \ {b})

RemovedByMe == [b \in SeqSet(all_balls) |-> ball[b].lines_removed_by_me]
RemovedByOthers == [b \in SeqSet(all_balls) |-> ball[b].my_lines_removed_by_others]

\* C22: after any sequence of Game.update calls the lines_removed_by_me of all
\* balls add up to their my_lines_removed_by_others; each ball's
\* my_lines_removed_by_others is the number of anchors ever added to it minus
\* the number it holds; and no ball has removed a line of its own: its
\* lines_removed_by_me is covered by the lines the other balls have lost.
C22_RemovalCounts ==
    pc = "active" =>
        /\ SumOver(RemovedByMe, SeqSet(all_balls)) = SumOver(RemovedByOthers, SeqSet(all_balls))
        /\ \A b \in SeqSet(all_balls) :
              /\ ball[b].my_lines_removed_by_others = ball[b].lines_added - Len(ball[b].lines)
              /\ ball[b].lines_removed_by_me <= SumOver(RemovedByOthers, SeqSet(all_balls) \ {b})

\* a ball that spawned a line at the boundary has lost lines to the other ball since
C22_Witness ==
    /\ pc = "active"
    /\ \E b \in SeqSet(all_balls) :
          /\ ball[b].lines_added > INITIAL_LINES_PER_BALL
          /\ ball[b].my_lines_removed_by_others >= 1
          /\ Len(ball[b].lines) >= 1
          /\ \E m \in SeqSet(all_balls) \ {b} : ball[m].lines_removed_by_me >= 1

\* the balls eliminated before the last Game.update call
DeadBefore == SeqSet(all_balls) \ SeqSet(call.alive)

\* C23: a ball in eliminated_balls stays there, and no later Game.update call
\* changes any of its fields (position, velocity, lines, cooldown, the two
\* removal counts); it is no mover either: after a severance pass every alive
\* ball holds exactly the lines no alive mover intersects.
C23_EliminatedFrozen ==
    [][/\ \A d \in SeqSet(eliminated_balls) :
             /\ ball'[d] = ball[d]
             /\ InSeq(eliminated_balls', d)
             /\ ~InSeq(balls', d)
       /\ (call'.kind = "update" /\ ~call'.in_grace_period) =>
             /\ SeqSet(call'.alive) \cap SeqSet(eliminated_balls) = {}
             /\ \A o \in SeqSet(call'.alive) :
                   ball'[o].lines = Uncut(call'.before, call'.alive, o, call'.before[o].lines)]_vars

\* a severance pass has run while an eliminated ball lay across a line of an
\* alive ball: the line is still there and the eliminated ball is as it was
C23_Witness ==
    /\ pc = "active"
    /\ call.kind = "update"
    /\ ~call.in_grace_period
    /\ \E d \in DeadBefore, o \in SeqSet(call.alive) :
          /\ InSeq(eliminated_balls, d)
          /\ ball[d] = call.before[d]
          /\ \E i \in 1..Len(ball[o].lines) : Cuts(ball, d, o, ball[o].lines[i])

\* C24: with speed increases >= 0 in the settings, after construction and after
\* every Game.update call no ball is faster than MAX_SPEED (within the
\* tolerance): the boundary bounce and the ball-ball collision, swap included,
\* both cap the speed.
C24_SpeedCapped ==
    (pc = "active" /\ settings.ball_collision_speed_increase_factor >= 0
                   /\ settings.boundary_collision_speed_increase >= 0) =>
        \A b \in SeqSet(all_balls) : Length(ball[b].velocity) <= MAX_SPEED + Eps

\* both balls of a game are at MAX_SPEED after an update that sped them up
C24_Witness ==
    /\ pc = "active"
    /\ call.kind = "update"
    /\ \A b \in SeqSet(all_balls) : Abs(Length(ball[b].velocity) - MAX_SPEED) <= Eps


\* what holds of the session whenever the quit-confirmation dialog is shown, and
\* what the keys can do to it
DialogPausesGame ==
    /\ session.show_quit_confirm => (session.paused /\ ~game_over)
    /\ session.show_quit_confirm => Pressed(session, "K_SPACE", game_over).paused
    /\ (game_over /\ ~session.show_quit_confirm) =>
           \A key \in Keys : ~Pressed(session, key, game_over).show_quit_confirm
    /\ (game_over /\ ~session.show_quit_confirm) =>
           \A target \in Clicks : ~Clicked(session, target, game_over).show_quit_confirm

\* a step taken with the dialog shown is no call of Game.update
NoUpdateUnderDialog ==
    session.show_quit_confirm => (updates' = updates /\ ball' = ball /\ game_over' = game_over)

\* C25: in every reachable state of the session loop, whatever keys and clicks
\* came before, show_quit_confirm implies paused and not game.game_over: Space
\* does not un-pause under the dialog, no key or click opens the dialog once the
\* game is over, and Game.update is not called while the dialog is shown.
C25_DialogPausesGame ==
    []DialogPausesGame /\ [][NoUpdateUnderDialog]_vars

\* the dialog was opened in the middle of a game, after a Game.update call, and
\* a frame has passed under it
C25_Witness ==
    /\ pc = "active"
    /\ session.show_quit_confirm
    /\ session.paused
    /\ updates >= 1
    /\ session.frames > updates

\* a finished game in a session that still runs: where Escape opens no dialog
GameOverInSession ==
    /\ game_over
    /\ session.at = "loop"
    /\ session.frames = updates

====
